---- MODULE Spec2Model ----
(***************************************************************************)
(* Decompression front end of mozjpeg-rust (src/src/decompress.rs).        *)
(*                                                                         *)
(* One decoding session is followed from its configuration to its drop.    *)
(* The wrapper's handlers are the actions; the decoding engine behind the  *)
(* ffi calls is modelled by the jpeg_* operators, which state what the     *)
(* engine does with the session structure (cinfo) at each call site.       *)
(***************************************************************************)
EXTENDS Integers, Sequences, FiniteSets, TLC

\* ------------------------------------------------------------------ bounds
MaxMarkers == 2     \* marker segments in an input stream
MaxComps   == 5     \* components in a frame
MaxVSamp   == 3     \* vertical sampling factor of component 0
MaxHeight  == 17    \* image height in rows
MaxWidth   == 9     \* image width in pixels
MaxDest    == 5     \* destination buffers handed to a raw read
MaxInitLen == 1     \* bytes already in a destination buffer

\* --------------------------------------------------------------- constants
MAX_MCU_HEIGHT == 16
MAX_COMPONENTS == 4
DCTSIZE        == 8
JPEG_APP0      == 224
JPEG_COM       == 254
JPEG_HEADER_OK == 1
JPEG_HEADER_TABLES_ONLY == 2

\* ----------------------------------------------------------------- helpers
Range(s) == {s[i] : i \in 1..Len(s)}

Count(s, x) == Cardinality({i \in 1..Len(s) : s[i] = x})

\* position of the first x in s, 0 when there is none
IndexOf(s, x) ==
    IF x \in Range(s) THEN CHOOSE i \in 1..Len(s) : s[i] = x /\ \A j \in 1..(i-1) : s[j] # x
    ELSE 0

RECURSIVE SelectSeqBy(_, _)
\* the segments of s whose marker code is in the set keep, in order
SelectSeqBy(s, keep) ==
    IF s = <<>> THEN <<>>
    ELSE IF Head(s).marker \in keep THEN <<Head(s)>> \o SelectSeqBy(Tail(s), keep)
    ELSE SelectSeqBy(Tail(s), keep)

DivRoundUp(a, b) == (a + b - 1) \div b

\* ------------------------------------------------------------------ markers
\* Marker enumeration: APP(n) and COM
APP(n) == [k |-> "APP", n |-> n]
COM    == [k |-> "COM", n |-> 0]

MarkerEnum == {APP(n) : n \in 0..15} \cup {COM}

\* Marker -> engine tag
MarkerInto(m) == IF m.k = "COM" THEN JPEG_COM ELSE JPEG_APP0 + m.n

\* engine tag -> Marker
MarkerFrom(c) == IF c = JPEG_COM THEN COM ELSE APP(c - JPEG_APP0)

NO_MARKERS == <<>>

ALL_MARKERS ==
    << APP(0), APP(1), APP(2), APP(3), APP(4),
       APP(5), APP(6), APP(7), APP(8), APP(9),
       APP(10), APP(11), APP(12), APP(13), APP(14),
       COM >>

\* ------------------------------------------------------------ input streams
StreamTags == {JPEG_APP0 + 1, JPEG_APP0 + 15, JPEG_COM}

\* marker segments of a stream: tag and payload, the payload named by its
\* position in the bitstream
StreamMarkers ==
    UNION {{[i \in 1..n |-> [marker |-> f[i], data |-> i]] : f \in [1..n -> StreamTags]}
           : n \in 0..MaxMarkers}

Heights == {h \in 1..MaxHeight : h % DCTSIZE <= 1}

Plain(kind) ==
    [kind |-> kind, markers |-> <<>>, num_components |-> 3, v_samp |-> 2,
     width |-> MaxWidth, height |-> 1]

\* a well-formed 4:2:0 stream with every marker layout
MarkerStreams == {[Plain("ok") EXCEPT !.markers = ms] : ms \in StreamMarkers}

\* marker-free well-formed streams of every frame shape, two MCU rows high at
\* the smallest sampling factor
ShapeStreams ==
    {[Plain("ok") EXCEPT !.num_components = nc, !.v_samp = v, !.height = DCTSIZE + 1]
     : nc \in 1..MaxComps, v \in 1..MaxVSamp}

\* image widths: one block wide and wider
Widths == {w \in 1..MaxWidth : w >= DCTSIZE}

\* marker-free well-formed 4:2:0 streams of every height and width
HeightStreams == {[Plain("ok") EXCEPT !.height = h, !.width = w] : h \in Heights, w \in Widths}

\* the three ways an input fails before its first scan
BadStreams == {Plain("empty"), Plain("truncated"), Plain("malformed")}

\* the inputs followed under a configuration: marker layouts under every
\* marker set, frame shapes and heights under the default one
Streams(config) ==
    MarkerStreams \cup BadStreams
    \cup (IF config.save_markers = <<>> THEN ShapeStreams \cup HeightStreams ELSE {})

MarkerSets == {NO_MARKERS, ALL_MARKERS, <<COM>>, <<APP(15)>>}

\* ------------------------------------------------------------------- engine
\* Every engine operator takes the session structure and returns
\* [cinfo, ret, exit]: the structure after the call, the value returned,
\* and whether the engine left through the error manager's error_exit.
Returned(c, r) == [cinfo |-> c, ret |-> r, exit |-> FALSE]
ErrExit(c)     == [cinfo |-> c, ret |-> 0, exit |-> TRUE]

\* saved marker segments as the engine links them: node i points to node
\* i + 1, the last one to null (0)
Linked(segs) ==
    [i \in 1..Len(segs) |->
        [marker |-> segs[i].marker, data |-> segs[i].data,
         next |-> IF i < Len(segs) THEN i + 1 ELSE 0]]

\* mem::zeroed() session structure
ZeroedCinfo ==
    [mem |-> FALSE, global_state |-> "0", src |-> "none", save |-> {},
     marker_pool |-> <<>>, marker_list |-> 0, image_width |-> 0, image_height |-> 0,
     num_components |-> 0, comp_info |-> <<>>, max_v_samp_factor |-> 0,
     jpeg_color_space |-> "JCS_UNKNOWN", out_color_space |-> "JCS_UNKNOWN",
     output_gamma |-> 0, raw_data_out |-> 0,
     output_width |-> 0, output_height |-> 0, output_scanline |-> 0]

jpeg_CreateDecompress(c) ==
    Returned([c EXCEPT !.mem = TRUE, !.global_state = "DSTATE_START"], 0)

jpeg_save_markers(c, code) ==
    Returned([c EXCEPT !.save = @ \cup {code}], 0)

jpeg_mem_src(c, s) ==
    IF s.kind = "empty" THEN ErrExit(c)
    ELSE Returned([c EXCEPT !.src = "mem"], 0)

jpeg_stdio_src(c) == Returned([c EXCEPT !.src = "stdio"], 0)

\* colorspace the frame declares, from its component count
FrameColorSpace(nc) ==
    CASE nc = 1 -> "JCS_GRAYSCALE"
      [] nc = 3 -> "JCS_YCbCr"
      [] nc = 4 -> "JCS_CMYK"
      [] OTHER  -> "JCS_UNKNOWN"

\* default output colorspace chosen at header time
DefaultOutColorSpace(cs) ==
    CASE cs = "JCS_GRAYSCALE" -> "JCS_GRAYSCALE"
      [] cs = "JCS_YCbCr"     -> "JCS_RGB"
      [] cs = "JCS_CMYK"      -> "JCS_CMYK"
      [] OTHER                -> "JCS_UNKNOWN"

\* component descriptors of a frame: component 0 carries the frame's
\* sampling factor, the others are sampled once
FrameComponents(s) ==
    [ci \in 1..s.num_components |->
        LET f == IF ci = 1 THEN s.v_samp ELSE 1 IN
        [h_samp_factor   |-> f,
         v_samp_factor   |-> f,
         width_in_blocks  |-> DivRoundUp(s.width * f, s.v_samp * DCTSIZE),
         height_in_blocks |-> DivRoundUp(s.height * f, s.v_samp * DCTSIZE)]]

jpeg_read_header(c, s) ==
    CASE s.kind \in {"malformed", "empty"} -> ErrExit(c)
      [] s.kind = "truncated" -> Returned(c, JPEG_HEADER_TABLES_ONLY)
      [] OTHER ->
           Returned([c EXCEPT
                       !.global_state = "DSTATE_READY",
                       !.marker_pool = Linked(SelectSeqBy(s.markers, c.save)),
                       !.marker_list = IF SelectSeqBy(s.markers, c.save) = <<>> THEN 0 ELSE 1,
                       !.image_width = s.width,
                       !.image_height = s.height,
                       !.num_components = s.num_components,
                       !.comp_info = FrameComponents(s),
                       !.max_v_samp_factor = s.v_samp,
                       !.jpeg_color_space = FrameColorSpace(s.num_components),
                       !.out_color_space =
                           DefaultOutColorSpace(FrameColorSpace(s.num_components)),
                       !.output_gamma = 1],
                    JPEG_HEADER_OK)

jpeg_destroy_decompress(c) ==
    Returned([c EXCEPT !.mem = FALSE, !.global_state = "0"], 0)

\* whether the engine converts a frame colorspace into an output colorspace
Convertible(jcs, out) ==
    CASE out = "JCS_GRAYSCALE" -> jcs \in {"JCS_GRAYSCALE", "JCS_YCbCr", "JCS_RGB"}
      [] out = "JCS_RGB"       -> jcs \in {"JCS_GRAYSCALE", "JCS_YCbCr", "JCS_RGB"}
      [] out = "JCS_CMYK"      -> jcs \in {"JCS_CMYK", "JCS_YCCK"}
      [] OTHER                 -> out = jcs

jpeg_start_decompress(c) ==
    IF c.global_state # "DSTATE_READY" THEN ErrExit(c)
    ELSE IF c.raw_data_out = 0 /\ ~Convertible(c.jpeg_color_space, c.out_color_space)
    THEN ErrExit(c)
    ELSE Returned([c EXCEPT
                     !.global_state =
                         IF c.raw_data_out # 0 THEN "DSTATE_RAW_OK" ELSE "DSTATE_SCANNING",
                     !.output_width = c.image_width,
                     !.output_height = c.image_height,
                     !.output_scanline = 0],
                  1)

\* rows_ready: whether the engine has the rows of the next unit at hand; it
\* reports 0 rows when it has not
jpeg_read_scanlines(c, max_lines, rows_ready) ==
    IF c.global_state # "DSTATE_SCANNING" THEN ErrExit(c)
    ELSE IF c.output_scanline >= c.output_height THEN Returned(c, 0)
    ELSE IF ~rows_ready THEN Returned(c, 0)
    ELSE Returned([c EXCEPT !.output_scanline = @ + 1], 1)

jpeg_read_raw_data(c, max_lines, rows_ready) ==
    LET lines_per_iMCU_row == c.max_v_samp_factor * DCTSIZE IN
    IF c.global_state # "DSTATE_RAW_OK" THEN ErrExit(c)
    ELSE IF c.output_scanline >= c.output_height THEN Returned(c, 0)
    ELSE IF max_lines < lines_per_iMCU_row THEN ErrExit(c)
    ELSE IF ~rows_ready THEN Returned(c, 0)
    ELSE Returned([c EXCEPT !.output_scanline = @ + lines_per_iMCU_row],
                  lines_per_iMCU_row)

\* ptr::null_mut() in a row-pointer table
NULL == -1

\* block rows of component ci (from 0) the engine decodes in the MCU row at
\* output_scanline: all of them, except in the last MCU row of the image,
\* where the component's rows end at height_in_blocks
block_rows(c, ci) ==
    LET comp == c.comp_info[ci + 1]
        last == c.output_scanline + c.max_v_samp_factor * DCTSIZE >= c.output_height
        last_row_height == IF comp.height_in_blocks % comp.v_samp_factor = 0
                           THEN comp.v_samp_factor
                           ELSE comp.height_in_blocks % comp.v_samp_factor
    IN  IF last THEN last_row_height ELSE comp.v_samp_factor

\* the byte ranges jpeg_read_raw_data writes through the table data when it
\* delivers the MCU row at output_scanline: width_in_blocks blocks at each
\* sample row of each decoded block row
raw_rows_written(c, data) ==
    {[ci |-> p[1], from |-> data[p],
      to |-> data[p] + c.comp_info[p[1] + 1].width_in_blocks * DCTSIZE]
     : p \in {q \in (0..(c.num_components - 1)) \X (0..(c.max_v_samp_factor * DCTSIZE - 1)) :
                q[2] < block_rows(c, q[1]) * DCTSIZE}}

\* components per pixel of the scanlines the engine puts out
out_color_components(c) ==
    CASE c.out_color_space = "JCS_GRAYSCALE"           -> 1
      [] c.out_color_space \in {"JCS_RGB", "JCS_YCbCr"} -> 3
      [] c.out_color_space \in {"JCS_CMYK", "JCS_YCCK"} -> 4
      [] OTHER                                         -> c.num_components

\* the byte range jpeg_read_scanlines writes when it delivers one scanline
\* at the row pointer row
scanline_written(c, row) ==
    [ci |-> 0, from |-> row, to |-> row + c.output_width * out_color_components(c)]

jpeg_finish_decompress(c) ==
    IF c.global_state \notin {"DSTATE_SCANNING", "DSTATE_RAW_OK"} THEN ErrExit(c)
    ELSE IF c.output_scanline < c.output_height THEN ErrExit(c)
    ELSE Returned([c EXCEPT !.global_state = "DSTATE_START"], 1)

\* ------------------------------------------------------------------ session
VARIABLES
    state,       \* decode state of the session, as the caller's handle types it
    cfg,         \* DecompressConfig being built (with its default error manager)
    stream,      \* input the session was attached to
    dec,         \* the Decompress structure and the engine calls made on it
    result,      \* what the last public operation returned
    iter,        \* MarkerIter the caller holds, if any
    image_dest   \* the caller's destination buffers (their lengths)

vars == <<state, cfg, stream, dec, result, iter, image_dest>>

Ok(d)           == [d EXCEPT !.result = [tag |-> "Ok", msg |-> "", val |-> 0]]
Err(d, msg, v)  == [d EXCEPT !.result = [tag |-> "Err", msg |-> msg, val |-> v]]

\* exit taken when the engine calls error_exit of the session's error manager
error_exit(err) == IF err = "Panicing" THEN "panic" ELSE "unwind"

\* one ffi call on the session: the call is made, the structure updated, and
\* an engine error leaves through the error manager
Ffi(d, name, r) ==
    [d EXCEPT !.cinfo = r.cinfo,
              !.calls = Append(@, [fn |-> name, ret |-> r.ret, exit |-> r.exit]),
              !.ret   = r.ret,
              !.exit  = IF r.exit THEN error_exit(d.own_error) ELSE @]

\* a read call: consecutive calls of one read routine stand once in the
\* call sequence, and are counted within the public read operation
FfiRead(d, name, r) ==
    [Ffi(d, name, r) EXCEPT
        !.calls = IF d.calls # <<>> /\ d.calls[Len(d.calls)].fn = name
                  THEN [d.calls EXCEPT ![Len(d.calls)] =
                            [fn |-> name, ret |-> r.ret, exit |-> r.exit]]
                  ELSE Append(d.calls, [fn |-> name, ret |-> r.ret, exit |-> r.exit]),
        !.reads = @ + 1]

Unwinding(d) == d.exit # "none"

\* panic!, assert! and assert_eq! of the wrapper itself
Panic(d) == [d EXCEPT !.exit = "panic"]

\* what the current read operation has done with memory: elements
\* allocated for the scanline buffer, byte ranges the engine wrote, and the
\* row-pointer table and buffer lengths of the last raw chunk read
NoIo == [alloc |-> 0, wrote |-> {}, row_ptrs |-> [p \in {} |-> NULL], original_len |-> <<>>]

NoSession ==
    [cinfo |-> ZeroedCinfo, own_error |-> "none", own_file |-> FALSE,
     calls |-> <<>>, reads |-> 0, exit |-> "none", ret |-> 0, io |-> NoIo,
     result |-> [tag |-> "Ok", msg |-> "", val |-> 0]]

DecompressConfig_new == [err |-> "None", save_markers |-> NO_MARKERS]

new_err(err) ==
    Ffi([NoSession EXCEPT !.own_error = err],
        "jpeg_CreateDecompress", jpeg_CreateDecompress(ZeroedCinfo))

save_marker(d, marker) ==
    Ffi(d, "jpeg_save_markers", jpeg_save_markers(d.cinfo, MarkerInto(marker)))

RECURSIVE save_markers_loop(_, _)
save_markers_loop(d, markers) ==
    IF markers = <<>> THEN d
    ELSE save_markers_loop(save_marker(d, Head(markers)), Tail(markers))

\* Mutant of create: interest is registered in every marker of ALL_MARKERS,
\* whatever the configuration asks for.
create_SaveAll(config) ==
    save_markers_loop(
        new_err(IF config.err = "None" THEN "Panicing" ELSE config.err),
        ALL_MARKERS)

create(config) ==
    save_markers_loop(
        new_err(IF config.err = "None" THEN "Panicing" ELSE config.err),
        config.save_markers)

set_file_src(d, fdopen_ok) ==
    IF ~fdopen_ok THEN Err(d, "os error", 0)
    ELSE Ok([Ffi(d, "jpeg_stdio_src", jpeg_stdio_src(d.cinfo))
                EXCEPT !.own_file = TRUE])

set_mem_src(d, mem) == Ffi(d, "jpeg_mem_src", jpeg_mem_src(d.cinfo, mem))

\* Mutant of read_header: the error value does not carry the status the
\* engine returned.
read_header_NoCode(d, s) ==
    LET r == Ffi(d, "jpeg_read_header", jpeg_read_header(d.cinfo, s)) IN
    IF Unwinding(r) THEN r
    ELSE IF r.ret = 1 THEN Ok(r)
    ELSE Err(r, "JPEG err", 0)

\* Mutant of read_header: every nonzero status is taken for success.
read_header_Nonzero(d, s) ==
    LET r == Ffi(d, "jpeg_read_header", jpeg_read_header(d.cinfo, s)) IN
    IF Unwinding(r) THEN r
    ELSE IF r.ret # 0 THEN Ok(r)
    ELSE Err(r, "JPEG err", r.ret)

read_header(d, s) ==
    LET r == Ffi(d, "jpeg_read_header", jpeg_read_header(d.cinfo, s)) IN
    IF Unwinding(r) THEN r
    ELSE IF r.ret = 1 THEN Ok(r)
    ELSE Err(r, "JPEG err", r.ret)

\* impl Drop for Decompress
drop(d) ==
    [Ffi(d, "jpeg_destroy_decompress", jpeg_destroy_decompress(d.cinfo))
        EXCEPT !.own_file = FALSE]

\* a local session leaves its frame: by `?` on an error, or by unwinding
Failed(d) == Unwinding(d) \/ d.result.tag = "Err"

from_file_fn(config, s, fdopen_ok) ==
    LET d1 == create(config)
        d2 == set_file_src(d1, fdopen_ok)
        d3 == read_header(d2, s)
    IN  IF Failed(d2) THEN drop(d2)
        ELSE IF Failed(d3) THEN drop(d3)
        ELSE d3

\* Mutant of from_mem: the session is leaked when the header parse fails.
from_mem_Leaking(config, mem) ==
    LET d1 == create(config)
        d2 == set_mem_src(d1, mem)
        d3 == read_header(d2, mem)
    IN  IF Unwinding(d2) THEN drop(d2) ELSE d3

from_mem_fn(config, mem) ==
    LET d1 == create(config)
        d2 == set_mem_src(d1, mem)
        d3 == read_header(d2, mem)
    IN  IF Unwinding(d2) THEN drop(d2)
        ELSE IF Failed(d3) THEN drop(d3)
        ELSE d3

\* ------------------------------------------------------- header-time queries
components(d) == SubSeq(d.cinfo.comp_info, 1, d.cinfo.num_components)

color_space(d) == d.cinfo.jpeg_color_space

gamma(d) == d.cinfo.output_gamma

width(d) == d.cinfo.image_width

height(d) == d.cinfo.image_height

size(d) == <<width(d), height(d)>>

out_color_space(d) == d.cinfo.out_color_space

\* Decompress::markers: a new iterator at the head of the saved-marker list
markers(d) == [marker_list |-> d.cinfo.marker_list]

\* Mutant of MarkerIter_next: the iterator unlinks the segment it yields
\* from the session's list.
MarkerIter_next_Unlinking(it, c) ==
    IF it.marker_list = 0
    THEN [iter |-> it, item |-> <<>>, cinfo |-> c]
    ELSE LET last == c.marker_pool[it.marker_list] IN
         [iter  |-> [it EXCEPT !.marker_list = last.next],
          item  |-> <<[marker |-> MarkerFrom(last.marker), data |-> last.data]>>,
          cinfo |-> [c EXCEPT !.marker_list = last.next]]

\* MarkerIter::next on iterator it over the session structure c: the
\* iterator after the call, the item yielded (none at the end of the list),
\* and the session structure after the call
MarkerIter_next(it, c) ==
    IF it.marker_list = 0
    THEN [iter |-> it, item |-> <<>>, cinfo |-> c]
    ELSE LET last == c.marker_pool[it.marker_list] IN
         [iter  |-> [it EXCEPT !.marker_list = last.next],
          item  |-> <<[marker |-> MarkerFrom(last.marker), data |-> last.data]>>,
          cinfo |-> c]

\* ------------------------------------------------------------ start of decode
set_raw_data_out(d, raw_out) ==
    [d EXCEPT !.cinfo.raw_data_out = IF raw_out THEN 1 ELSE 0]

start_decompress(d) ==
    LET r == Ffi(d, "jpeg_start_decompress", jpeg_start_decompress(d.cinfo))
        x == IF Unwinding(r) THEN r
             ELSE IF 0 # r.ret THEN Ok(r)
             ELSE Err(r, "JPEG err", r.ret)
    IN  IF Failed(x) THEN drop(x) ELSE x

rgb(d) == start_decompress([d EXCEPT !.cinfo.out_color_space = "JCS_RGB"])

raw(d) == start_decompress(set_raw_data_out(d, TRUE))

\* the Format variant wrapping a started session
Variant(d, v) == IF Failed(d) THEN d ELSE [d EXCEPT !.result.msg = v]

\* Mutant of image: the CMYK and grayscale arms are swapped.
image_Swapped(d) ==
    CASE out_color_space(d) = "JCS_RGB"       -> Variant(start_decompress(d), "RGB")
      [] out_color_space(d) = "JCS_CMYK"      -> Variant(start_decompress(d), "Gray")
      [] out_color_space(d) = "JCS_GRAYSCALE" -> Variant(start_decompress(d), "CMYK")
      [] OTHER -> drop(Err(d, "unsupported format", 0))

image(d) ==
    CASE out_color_space(d) = "JCS_RGB"       -> Variant(start_decompress(d), "RGB")
      [] out_color_space(d) = "JCS_CMYK"      -> Variant(start_decompress(d), "CMYK")
      [] out_color_space(d) = "JCS_GRAYSCALE" -> Variant(start_decompress(d), "Gray")
      [] OTHER -> drop(Err(d, "unsupported format", 0))

\* ----------------------------------------------------------------- reading
read_more_chunks(d) == d.cinfo.output_scanline < d.cinfo.output_height

\* CompInfo::row_stride
row_stride(comp_info) == comp_info.width_in_blocks * DCTSIZE

\* CompInfo::col_stride
col_stride(comp_info) == comp_info.height_in_blocks * DCTSIZE

\* ColorSpace::num_components
num_components(cs) ==
    CASE cs = "JCS_GRAYSCALE"           -> 1
      [] cs \in {"JCS_RGB", "JCS_YCbCr"} -> 3
      [] cs \in {"JCS_CMYK", "JCS_YCCK"} -> 4
      [] OTHER                           -> 0

McuTooHigh(mcu_height) == mcu_height > MAX_MCU_HEIGHT

\* Mutant of the component-count check: both ceilings must be exceeded.
TooManyComponents_Both(n, ndest) == n > MAX_COMPONENTS /\ n > ndest

TooManyComponents(n, ndest) == n > MAX_COMPONENTS \/ n > ndest

\* Mutant of the extension: one row stride, that of component 0, for every
\* component.
Extended_SharedStride(d, dest) ==
    [ci \in 1..Len(dest) |->
        IF ci <= Len(components(d))
        THEN dest[ci] + (components(d)[ci].v_samp_factor * DCTSIZE)
                          * row_stride(components(d)[1])
        ELSE dest[ci]]

\* Mutant of the extension: every buffer grows by the shared MCU height.
Extended_McuHeight(d, dest) ==
    [ci \in 1..Len(dest) |->
        IF ci <= Len(components(d))
        THEN dest[ci] + (d.cinfo.max_v_samp_factor * DCTSIZE)
                          * row_stride(components(d)[ci])
        ELSE dest[ci]]

\* destination buffers after each component's buffer was extended by one
\* MCU row of that component
Extended(d, dest) ==
    [ci \in 1..Len(dest) |->
        IF ci <= Len(components(d))
        THEN dest[ci] + (components(d)[ci].v_samp_factor * DCTSIZE)
                          * row_stride(components(d)[ci])
        ELSE dest[ci]]

\* Mutant of the row start: the row index is not scaled by the row stride.
row_start_Unscaled(d, dest, ci, ri) == IF ci < Len(dest) THEN dest[ci + 1] + ri ELSE NULL

\* start offset of row ri of component ci (both from 0) in its buffer; the
\* component check leaves no component without a buffer
row_start(d, dest, ci, ri) ==
    IF ci < Len(dest) THEN dest[ci + 1] + ri * row_stride(components(d)[ci + 1]) ELSE NULL

\* row_ptrs as the loops of read_raw_data_chunk leave it: the entries of the
\* null-initialised MAX_COMPONENTS x MAX_MCU_HEIGHT array, and every entry
\* the loops assign; dest holds the buffer lengths before the extension
row_ptrs(d, dest) ==
    LET comp_height(ci) == components(d)[ci + 1].v_samp_factor * DCTSIZE
        mcu_height == d.cinfo.max_v_samp_factor * DCTSIZE
        assigned == {p \in (0..(Len(components(d)) - 1)) \X (0..(MaxVSamp * DCTSIZE - 1)) :
                        p[2] < comp_height(p[1]) \/ p[2] < mcu_height}
    IN  [p \in ((0..(MAX_COMPONENTS - 1)) \X (0..(MAX_MCU_HEIGHT - 1))) \cup assigned |->
            IF p \in assigned /\ p[2] < comp_height(p[1])
            THEN row_start(d, dest, p[1], p[2])
            ELSE NULL]

\* Mutant of the chunk read: the number of rows the engine reports is not
\* compared with the MCU height.
read_raw_data_chunk_Lenient(d, dest, rows_ready) ==
    LET mcu_height == d.cinfo.max_v_samp_factor * DCTSIZE
        t == [d EXCEPT !.io.row_ptrs = row_ptrs(d, dest), !.io.original_len = dest]
        r == FfiRead(t, "jpeg_read_raw_data",
                     jpeg_read_raw_data(d.cinfo, mcu_height, rows_ready))
    IN  IF 0 = d.cinfo.raw_data_out THEN [d |-> Panic(d), image_dest |-> dest]
        ELSE IF McuTooHigh(mcu_height) THEN [d |-> Panic(d), image_dest |-> dest]
        ELSE IF TooManyComponents(Len(components(d)), Len(dest))
        THEN [d |-> Panic(d), image_dest |-> dest]
        ELSE IF Unwinding(r) THEN [d |-> r, image_dest |-> Extended(d, dest)]
        ELSE IF r.ret # mcu_height THEN [d |-> r, image_dest |-> Extended(d, dest)]
        ELSE [d |-> [r EXCEPT !.io.wrote = @ \cup raw_rows_written(d.cinfo, t.io.row_ptrs)],
              image_dest |-> Extended(d, dest)]

\* one raw chunk read; returns the session and the destination buffers
read_raw_data_chunk(d, dest, rows_ready) ==
    LET mcu_height == d.cinfo.max_v_samp_factor * DCTSIZE
        t == [d EXCEPT !.io.row_ptrs = row_ptrs(d, dest), !.io.original_len = dest]
        r == FfiRead(t, "jpeg_read_raw_data",
                     jpeg_read_raw_data(d.cinfo, mcu_height, rows_ready))
    IN  IF 0 = d.cinfo.raw_data_out THEN [d |-> Panic(d), image_dest |-> dest]
        ELSE IF McuTooHigh(mcu_height) THEN [d |-> Panic(d), image_dest |-> dest]
        ELSE IF TooManyComponents(Len(components(d)), Len(dest))
        THEN [d |-> Panic(d), image_dest |-> dest]
        ELSE IF Unwinding(r) THEN [d |-> r, image_dest |-> Extended(d, dest)]
        ELSE IF r.ret # mcu_height THEN [d |-> Panic(r), image_dest |-> Extended(d, dest)]
        ELSE [d |-> [r EXCEPT !.io.wrote = @ \cup raw_rows_written(d.cinfo, t.io.row_ptrs)],
              image_dest |-> Extended(d, dest)]

RECURSIVE read_raw_data_loop(_, _, _, _)
\* the n-th and later iterations of read_raw_data's loop; the engine has no
\* rows at hand in iteration fail_at
read_raw_data_loop(d, dest, fail_at, n) ==
    IF Unwinding(d) \/ ~read_more_chunks(d) THEN [d |-> d, image_dest |-> dest]
    ELSE LET x == read_raw_data_chunk(d, dest, n # fail_at) IN
         read_raw_data_loop(x.d, x.image_dest, fail_at, n + 1)

read_raw_data(d, dest, fail_at) ==
    read_raw_data_loop([d EXCEPT !.reads = 0, !.io = NoIo], dest, fail_at, 1)

output_width(d) == d.cinfo.output_width

output_height(d) == d.cinfo.output_height

RECURSIVE read_scanlines_loop_Break(_, _, _, _)
\* Mutant of the scanline loop: a read of zero rows ends the loop and the
\* buffer is returned.
read_scanlines_loop_Break(d, size_of_T, fail_at, n) ==
    IF ~read_more_chunks(d)
    THEN [d EXCEPT !.result = [tag |-> "Some", msg |-> "", val |-> d.io.alloc]]
    ELSE LET start_line == d.cinfo.output_scanline
             rows == output_width(d) * start_line * size_of_T
             r == FfiRead(d, "jpeg_read_scanlines",
                          jpeg_read_scanlines(d.cinfo, 1, n # fail_at)) IN
         IF Unwinding(r) THEN r
         ELSE IF 0 = r.ret
         THEN [r EXCEPT !.result = [tag |-> "Some", msg |-> "", val |-> d.io.alloc]]
         ELSE read_scanlines_loop_Break(
                  [r EXCEPT !.io.wrote = @ \cup {scanline_written(d.cinfo, rows)}],
                  size_of_T, fail_at, n + 1)

RECURSIVE read_scanlines_loop_Retrying(_, _, _, _)
\* Mutant of the scanline loop: a read of zero rows is tried again.
read_scanlines_loop_Retrying(d, size_of_T, fail_at, n) ==
    IF ~read_more_chunks(d)
    THEN [d EXCEPT !.result = [tag |-> "Some", msg |-> "", val |-> d.io.alloc]]
    ELSE LET start_line == d.cinfo.output_scanline
             rows == output_width(d) * start_line * size_of_T
             r == FfiRead(d, "jpeg_read_scanlines",
                          jpeg_read_scanlines(d.cinfo, 1, n # fail_at)) IN
         IF Unwinding(r) THEN r
         ELSE IF 0 = r.ret THEN read_scanlines_loop_Retrying(r, size_of_T, fail_at, n + 1)
         ELSE read_scanlines_loop_Retrying(
                  [r EXCEPT !.io.wrote = @ \cup {scanline_written(d.cinfo, rows)}],
                  size_of_T, fail_at, n + 1)

RECURSIVE read_scanlines_loop(_, _, _, _)
\* the n-th and later iterations of read_scanlines' loop over image_dst, a
\* buffer of d.io.alloc elements of size_of_T bytes
read_scanlines_loop(d, size_of_T, fail_at, n) ==
    IF ~read_more_chunks(d)
    THEN [d EXCEPT !.result = [tag |-> "Some", msg |-> "", val |-> d.io.alloc]]
    ELSE LET start_line == d.cinfo.output_scanline
             rows == output_width(d) * start_line * size_of_T
             r == FfiRead(d, "jpeg_read_scanlines",
                          jpeg_read_scanlines(d.cinfo, 1, n # fail_at)) IN
         IF Unwinding(r) THEN r
         ELSE IF 0 = r.ret THEN [r EXCEPT !.result = [tag |-> "None", msg |-> "", val |-> 0]]
         ELSE read_scanlines_loop(
                  [r EXCEPT !.io.wrote = @ \cup {scanline_written(d.cinfo, rows)}],
                  size_of_T, fail_at, n + 1)

\* Mutant of read_scanlines: the width of T is not compared with the
\* component count.
read_scanlines_Unchecked(d, size_of_T, fail_at) ==
    read_scanlines_loop(
        [d EXCEPT !.reads = 0,
                  !.io = [NoIo EXCEPT !.alloc = output_height(d) * output_width(d)]],
        size_of_T, fail_at, 1)

\* read_scanlines::<T> with size_of::<T>() = size_of_T
read_scanlines(d, size_of_T, fail_at) ==
    IF num_components(out_color_space(d)) # size_of_T
    THEN Panic([d EXCEPT !.reads = 0, !.io = NoIo])
    ELSE read_scanlines_loop(
             [d EXCEPT !.reads = 0,
                       !.io = [NoIo EXCEPT !.alloc = output_height(d) * output_width(d)]],
             size_of_T, fail_at, 1)

\* Mutant of finish_decompress: the engine's status is negated.
finish_decompress_Negated(d) ==
    LET r == Ffi(d, "jpeg_finish_decompress", jpeg_finish_decompress(d.cinfo)) IN
    IF Unwinding(r) THEN drop(r)
    ELSE drop([r EXCEPT !.result = [tag |-> IF 0 = r.ret THEN "true" ELSE "false",
                                    msg |-> "", val |-> 0]])

finish_decompress(d) ==
    LET r == Ffi(d, "jpeg_finish_decompress", jpeg_finish_decompress(d.cinfo)) IN
    IF Unwinding(r) THEN drop(r)
    ELSE drop([r EXCEPT !.result = [tag |-> IF 0 # r.ret THEN "true" ELSE "false",
                                    msg |-> "", val |-> 0]])

\* what the caller sees of a constructor or start that ran on d
Outcome(op, d) ==
    IF Unwinding(d) THEN [op |-> op, ret |-> d.exit, msg |-> "", val |-> 0]
    ELSE [op |-> op, ret |-> d.result.tag, msg |-> d.result.msg, val |-> d.result.val]

Init ==
    /\ state = "Unopened"
    /\ cfg = DecompressConfig_new
    /\ stream = Plain("none")
    /\ dec = NoSession
    /\ result = [op |-> "config", ret |-> "Ok", msg |-> "", val |-> 0]
    /\ iter = <<>>
    /\ image_dest = <<>>

with_markers ==
    /\ state = "Unopened"
    /\ \E save_markers \in MarkerSets :
          cfg' = [cfg EXCEPT !.save_markers = save_markers]
    /\ result' = [op |-> "with_markers", ret |-> "Ok", msg |-> "", val |-> 0]
    /\ UNCHANGED <<state, stream, dec, iter, image_dest>>

Constructed(op, d, s) ==
    /\ dec' = d
    /\ stream' = s
    /\ result' = Outcome(op, d)
    /\ state' = IF Failed(d) THEN "Failed" ELSE "HeaderParsed"
    /\ UNCHANGED <<cfg, iter, image_dest>>

from_path ==
    /\ state = "Unopened"
    /\ \E s \in Streams(cfg), open_ok \in BOOLEAN, fdopen_ok \in BOOLEAN :
          IF open_ok
          THEN Constructed("from_path", from_file_fn(cfg, s, fdopen_ok), s)
          ELSE /\ result' = [op |-> "from_path", ret |-> "Err", msg |-> "os error", val |-> 0]
               /\ state' = "Failed"
               /\ UNCHANGED <<cfg, stream, dec, iter, image_dest>>

from_file ==
    /\ state = "Unopened"
    /\ \E s \in Streams(cfg), fdopen_ok \in BOOLEAN :
          Constructed("from_file", from_file_fn(cfg, s, fdopen_ok), s)

from_mem ==
    /\ state = "Unopened"
    /\ \E mem \in Streams(cfg) : Constructed("from_mem", from_mem_fn(cfg, mem), mem)

HeaderQueries == {"size", "color_space", "gamma", "components"}

QueryValue(q, d) ==
    CASE q = "size"          -> size(d)
      [] q = "color_space"   -> color_space(d)
      [] q = "gamma"         -> gamma(d)
      [] q = "components"    -> components(d)

\* a metadata getter on the Decompress handle
Query ==
    /\ state = "HeaderParsed"
    /\ \E q \in HeaderQueries :
          result' = [op |-> q, ret |-> "Ok", msg |-> "", val |-> 0,
                     value |-> <<q, QueryValue(q, dec)>>]
    /\ UNCHANGED <<state, cfg, stream, dec, iter, image_dest>>

CallMarkers ==
    /\ state = "HeaderParsed"
    /\ iter' = <<[it |-> markers(dec), out |-> <<>>, ended |-> FALSE]>>
    /\ result' = [op |-> "markers", ret |-> "Ok", msg |-> "", val |-> 0]
    /\ UNCHANGED <<state, cfg, stream, dec, image_dest>>

CallNext ==
    /\ state = "HeaderParsed"
    /\ iter # <<>>
    /\ LET r == MarkerIter_next(iter[1].it, dec.cinfo) IN
          /\ iter' = <<[it |-> r.iter, out |-> iter[1].out \o r.item,
                        ended |-> r.item = <<>>]>>
          /\ dec' = [dec EXCEPT !.cinfo = r.cinfo]
          /\ result' = [op |-> "next", ret |-> IF r.item = <<>> THEN "None" ELSE "Some",
                        msg |-> "", val |-> 0]
    /\ UNCHANGED <<state, cfg, stream, image_dest>>

\* a start operation consumed the Decompress handle and returned d
Started(op, d) ==
    /\ dec' = d
    /\ result' = Outcome(op, d)
    /\ state' = IF Failed(d) THEN "Failed" ELSE "Started"
    /\ iter' = <<>>
    /\ UNCHANGED <<cfg, stream, image_dest>>

StartRgb ==
    /\ state = "HeaderParsed"
    /\ Started("rgb", rgb(dec))

StartRaw ==
    /\ state = "HeaderParsed"
    /\ Started("raw", raw(dec))

StartImage ==
    /\ state = "HeaderParsed"
    /\ Started("image", image(dec))

\* size_of::<T>() of the pixel types a caller reads into
PixelSizes == {0, 1, 3, 4}

\* engine read calls a read operation can still make
RowsPending(d) ==
    IF read_more_chunks(d) THEN d.cinfo.output_height - d.cinfo.output_scanline ELSE 0

ChunksPending(d) ==
    IF d.cinfo.max_v_samp_factor = 0 THEN 0
    ELSE DivRoundUp(RowsPending(d), d.cinfo.max_v_samp_factor * DCTSIZE)

\* destination buffer arrays a caller hands in: empty buffers of every count,
\* and buffers that already hold bytes where there are enough of them for
\* every supported image
FreshDests ==
    {[ci \in 1..n |-> 0] : n \in 0..MaxDest}
    \cup {[ci \in 1..n |-> l] : n \in MAX_COMPONENTS..MaxDest, l \in 1..MaxInitLen}

ReadRawData ==
    /\ state = "Started"
    /\ ~Unwinding(dec)
    /\ \E dest \in {image_dest} \cup FreshDests, fail_at \in 0..ChunksPending(dec) :
          LET x == read_raw_data(dec, dest, fail_at) IN
          /\ dec' = [x.d EXCEPT !.io = NoIo]
          /\ image_dest' = IF x.image_dest = dest THEN image_dest ELSE x.image_dest
          /\ result' = [op |-> "read_raw_data",
                        ret |-> IF Unwinding(x.d) THEN x.d.exit ELSE "Ok",
                        msg |-> "", val |-> 0,
                        ndest |-> Len(dest), before |-> dest, after |-> x.image_dest,
                        pending |-> read_more_chunks(dec),
                        fail_at |-> fail_at, from_line |-> dec.cinfo.output_scanline,
                        io |-> x.d.io]
    /\ UNCHANGED <<state, cfg, stream, iter>>

ReadScanlines ==
    /\ state = "Started"
    /\ ~Unwinding(dec)
    /\ \E size_of_T \in PixelSizes, fail_at \in 0..RowsPending(dec) :
          LET d == read_scanlines(dec, size_of_T, fail_at) IN
          /\ dec' = [d EXCEPT !.io = NoIo]
          /\ result' = [op |-> "read_scanlines",
                        ret |-> IF Unwinding(d) THEN d.exit ELSE d.result.tag,
                        msg |-> "", val |-> IF Unwinding(d) THEN 0 ELSE d.result.val,
                        size_of_T |-> size_of_T, pending |-> read_more_chunks(dec),
                        fail_at |-> fail_at, from_line |-> dec.cinfo.output_scanline,
                        io |-> d.io]
    /\ UNCHANGED <<state, cfg, stream, iter, image_dest>>

\* Mutant of Finish: finish_decompress borrows the started session instead
\* of consuming it, so the caller keeps a DecompressStarted handle.
Finish_Borrowing ==
    /\ state = "Started"
    /\ ~Unwinding(dec)
    /\ "jpeg_finish_decompress" \notin {dec.calls[i].fn : i \in 1..Len(dec.calls)}
    /\ LET r == Ffi(dec, "jpeg_finish_decompress", jpeg_finish_decompress(dec.cinfo)) IN
          /\ dec' = r
          /\ result' = [op |-> "finish_decompress",
                        ret |-> IF Unwinding(r) THEN r.exit
                                ELSE IF 0 # r.ret THEN "true" ELSE "false",
                        msg |-> "", val |-> 0]
    /\ UNCHANGED <<state, cfg, stream, iter, image_dest>>

Finish ==
    /\ state = "Started"
    /\ ~Unwinding(dec)
    /\ dec' = finish_decompress(dec)
    /\ result' = Outcome("finish_decompress", dec')
    /\ state' = IF Unwinding(dec') THEN "Failed" ELSE "Finished"
    /\ UNCHANGED <<cfg, stream, iter, image_dest>>

\* the caller lets go of a Decompress or DecompressStarted handle
Drop ==
    /\ state \in {"HeaderParsed", "Started"}
    /\ dec' = drop(dec)
    /\ state' = "Dropped"
    /\ iter' = <<>>
    /\ result' = [op |-> "drop", ret |-> "Ok", msg |-> "", val |-> 0]
    /\ UNCHANGED <<cfg, stream, image_dest>>

Next ==
    \/ with_markers
    \/ from_path
    \/ from_file
    \/ from_mem
    \/ Query
    \/ CallMarkers
    \/ CallNext
    \/ StartRgb
    \/ StartRaw
    \/ StartImage
    \/ ReadRawData
    \/ ReadScanlines
    \/ Finish
    \/ Drop

Spec == Init /\ [][Next]_vars


\* ====================================================================
\* Properties
\* ====================================================================
Fns == [i \in 1..Len(dec.calls) |-> dec.calls[i].fn]

Called(name) == name \in Range(Fns)

ReadRoutines == {"jpeg_read_raw_data", "jpeg_read_scanlines"}

ReadOps == {"read_raw_data", "read_scanlines"}

StartOps == {"rgb", "raw", "image"}

Constructors == {"from_path", "from_file", "from_mem"}

Rank(st) ==
    CASE st = "Unopened"     -> 0
      [] st = "HeaderParsed" -> 1
      [] st = "Started"      -> 2
      [] OTHER               -> 3

\* the session left the caller's hands: finished, dropped, or never handed out
Gone(st) == st \in {"Finished", "Dropped", "Failed"}


\* --------------------------------------------------------------------- C1
\* C1: the decode lifecycle is one-way.  Every step keeps or advances the
\* decode state (Unopened, HeaderParsed, Started, then finished or gone); a
\* session that is finished, dropped or failed is never touched again; a read
\* operation runs only on a Started session and leaves it Started; and every
\* engine read call on a session comes after its start call and before its
\* finish and destroy calls.
C1_ReadsInOrder ==
    /\ \A i \in 1..Len(Fns) :
          Fns[i] \in ReadRoutines =>
             /\ \E j \in 1..(i-1) : Fns[j] = "jpeg_start_decompress"
             /\ \A j \in 1..(i-1) :
                   Fns[j] \notin {"jpeg_finish_decompress", "jpeg_destroy_decompress"}
    /\ result.op \in ReadOps => state \in {"Started", "Dropped"}
    /\ state \in {"Unopened", "HeaderParsed"} => Range(Fns) \cap ReadRoutines = {}

C1_Step ==
    /\ Rank(state') >= Rank(state)
    /\ Gone(state) => UNCHANGED vars
    /\ (result'.op \in ReadOps /\ dec' # dec) => (state = "Started" /\ state' = "Started")
    /\ (state = "Started" /\ "jpeg_finish_decompress" \in {dec'.calls[i].fn : i \in 1..Len(dec'.calls)})
          => Gone(state')

C1_OneWayLifecycle == [](C1_ReadsInOrder) /\ [][C1_Step]_vars

\* a read ran to the end on a started session, which was then finished
C1_Witness ==
    /\ state = "Finished"
    /\ Range(Fns) \cap ReadRoutines # {}
    /\ result.ret = "true"

\* --------------------------------------------------------------------- C2
\* C2: every engine session that was created is destroyed exactly once on
\* every exit path: the destroy call is made at most once, it is the last
\* engine call on the session, and once the session has left the caller's
\* hands (dropped in the header-only or the started state, finished, or
\* failed in construction or in start) it has been made.
C2_DestroyedExactlyOnce ==
    /\ Count(Fns, "jpeg_CreateDecompress") <= 1
    /\ Count(Fns, "jpeg_destroy_decompress") <= 1
    /\ Called("jpeg_destroy_decompress") =>
          /\ Fns[Len(Fns)] = "jpeg_destroy_decompress"
          /\ Fns[1] = "jpeg_CreateDecompress"
          /\ ~dec.cinfo.mem
    /\ (Gone(state) /\ Called("jpeg_CreateDecompress")) =>
          Count(Fns, "jpeg_destroy_decompress") = 1
    /\ ~Gone(state) => ~Called("jpeg_destroy_decompress")

\* a start that the engine refused: the session was destroyed on the way out
C2_Witness ==
    /\ state = "Failed"
    /\ result.op = "rgb"
    /\ Count(Fns, "jpeg_destroy_decompress") = 1
    /\ Fns[Len(Fns) - 1] = "jpeg_start_decompress"

\* --------------------------------------------------------------------- C3
\* C3: on every session whose source was attached the header-parse routine
\* is called exactly once (and never more than once on any session), after
\* one marker registration for each configured marker and after the source
\* attachment; the caller holds a session handle only if that call returned
\* the header-ok status, so every metadata query, marker iteration and start
\* follows a successful header parse.
Attached == dec.cinfo.src # "none"

HeaderIndex == IndexOf(Fns, "jpeg_read_header")

C3_HeaderParsedOnce ==
    /\ Count(Fns, "jpeg_read_header") <= 1
    /\ (state # "Unopened" /\ Attached) => Count(Fns, "jpeg_read_header") = 1
    /\ Called("jpeg_read_header") =>
          /\ Attached
          /\ \A i \in 1..Len(Fns) :
                Fns[i] \in {"jpeg_save_markers", "jpeg_mem_src", "jpeg_stdio_src",
                            "jpeg_CreateDecompress"} => i < HeaderIndex
          /\ Count(Fns, "jpeg_save_markers") = Len(cfg.save_markers)
          /\ dec.cinfo.save = {MarkerInto(m) : m \in Range(cfg.save_markers)}
    /\ (state \in {"HeaderParsed", "Started", "Finished", "Dropped"}
            \/ result.op \in HeaderQueries \cup {"markers", "next"} \cup StartOps) =>
          /\ Called("jpeg_read_header")
          /\ dec.calls[HeaderIndex].ret = JPEG_HEADER_OK
          /\ ~dec.calls[HeaderIndex].exit
    /\ \A i \in 1..Len(Fns) : Fns[i] = "jpeg_start_decompress" => HeaderIndex \in 1..(i-1)

\* a metadata query on a session configured with markers to save
C3_Witness ==
    /\ state = "HeaderParsed"
    /\ result.op = "size"
    /\ Len(cfg.save_markers) > 1
    /\ Count(Fns, "jpeg_read_header") = 1


\* --------------------------------------------------------------------- C4
HeaderCall == dec.calls[HeaderIndex]

HeaderFailed ==
    /\ Called("jpeg_read_header")
    /\ (HeaderCall.exit \/ HeaderCall.ret # JPEG_HEADER_OK)

\* C4 as stated: whenever header parsing fails, the constructor returns an
\* error value carrying the engine's code and does not panic.
C4_ErrorValueNeverPanic ==
    (result.op \in Constructors /\ HeaderFailed) =>
        /\ result.ret = "Err"
        /\ result.val = HeaderCall.ret

\* C4 amended: when header parsing fails under the default error manager no
\* session handle is returned, and the constructor returns an error value
\* carrying the status jpeg_read_header returned if the engine returned a
\* status other than header-ok (input that ends before its first scan), and
\* panics if the engine reported the failure through the error manager's
\* error_exit (malformed or empty input).
C4_ErrorValueOrPanic ==
    (result.op \in Constructors /\ HeaderFailed) =>
        /\ state = "Failed"
        /\ IF HeaderCall.exit
           THEN result.ret = "panic"
           ELSE /\ result.ret = "Err"
                /\ result.msg = "JPEG err"
                /\ result.val = HeaderCall.ret

\* a constructor given input that ends before its first scan
C4_Witness ==
    /\ result.op = "from_mem"
    /\ stream.kind = "truncated"
    /\ HeaderFailed
    /\ result.ret = "Err"
    /\ result.val = JPEG_HEADER_TABLES_ONLY

\* --------------------------------------------------------------------- C5
Configured == Range(cfg.save_markers)

\* C5: the tag of every marker segment an iterator has yielded belongs to
\* the marker set the session was configured with; a session configured with
\* the empty set yields none.
C5_OnlyConfiguredMarkers ==
    iter # <<>> =>
        /\ \A i \in 1..Len(iter[1].out) : iter[1].out[i].marker \in Configured
        /\ cfg.save_markers = NO_MARKERS => iter[1].out = <<>>

\* an iteration that ended having yielded a segment while the stream holds
\* a segment of a tag that was not asked for
C5_Witness ==
    /\ iter # <<>>
    /\ iter[1].ended
    /\ Len(iter[1].out) = 1
    /\ Len(stream.markers) = 2

\* --------------------------------------------------------------------- C6
\* C6 as stated: a session configured with ALL_MARKERS retains every
\* application and comment marker present in the stream (ALL_MARKERS names
\* every tag APP0..APP15 and COM).
C6_AllMarkersRetained ==
    (state = "HeaderParsed" /\ cfg.save_markers = ALL_MARKERS) =>
        /\ Range(ALL_MARKERS) = MarkerEnum
        /\ Len(dec.cinfo.marker_pool) = Len(stream.markers)

\* --------------------------------------------------------------------- C7
\* the segments the header parse saved, as the iterator presents them
Saved == SelectSeqBy(stream.markers, {MarkerInto(m) : m \in Configured})

Expected ==
    [i \in 1..Len(Saved) |-> [marker |-> MarkerFrom(Saved[i].marker), data |-> Saved[i].data]]

\* C7: marker iteration is finite and non-destructive.  Whatever iterations
\* came before, an iterator has yielded a prefix of the saved segments in
\* bitstream order, it ends exactly when it has yielded all n of them, and
\* the session's list is the one the header parse built.
C7_IterationNonDestructive ==
    /\ iter # <<>> =>
          /\ Len(iter[1].out) <= Len(Expected)
          /\ iter[1].out = SubSeq(Expected, 1, Len(iter[1].out))
          /\ iter[1].ended => iter[1].out = Expected
          /\ (iter[1].it.marker_list = 0) = (Len(iter[1].out) = Len(Expected))
    /\ state = "HeaderParsed" =>
          /\ dec.cinfo.marker_pool = Linked(Saved)
          /\ dec.cinfo.marker_list = IF Saved = <<>> THEN 0 ELSE 1

\* an iteration over two saved segments that reached the end of the list
C7_Witness ==
    /\ iter # <<>>
    /\ iter[1].ended
    /\ Len(iter[1].out) = 2
    /\ iter[1].out[1].data = 1
    /\ iter[1].out[2].data = 2

\* --------------------------------------------------------------------- C8
VariantOf(cs) ==
    CASE cs = "JCS_RGB"       -> "RGB"
      [] cs = "JCS_GRAYSCALE" -> "Gray"
      [] cs = "JCS_CMYK"      -> "CMYK"
      [] OTHER                -> "none"

\* C8: when image() returns a variant, it is the variant of the output
\* colorspace of the started session, and for every output colorspace other
\* than RGB, grayscale and CMYK image() returns the unsupported-colorspace
\* error (and only then).
C8_ImageVariant ==
    result.op = "image" =>
        IF VariantOf(dec.cinfo.out_color_space) # "none"
        THEN /\ result.ret = "Ok" =>
                   /\ result.msg = VariantOf(dec.cinfo.out_color_space)
                   /\ state = "Started"
                   /\ dec.cinfo.global_state = "DSTATE_SCANNING"
             /\ result.msg # "unsupported format"
        ELSE /\ result.ret = "Err"
             /\ result.msg = "unsupported format"
             /\ state = "Failed"

\* image() on a four-component stream
C8_Witness ==
    /\ result.op = "image"
    /\ result.ret = "Ok"
    /\ result.msg = "CMYK"
    /\ dec.cinfo.out_color_space = "JCS_CMYK"

\* --------------------------------------------------------------------- C9
\* C9: finish_decompress() returns true if and only if output_scanline had
\* reached output_height when it was called.
C9_FinishTrueIffConsumed ==
    result.op = "finish_decompress" =>
        ((result.ret = "true") <=> (dec.cinfo.output_scanline >= dec.cinfo.output_height))

\* a clean finish after a raw decode, whose last MCU row passed the height
C9_Witness ==
    /\ result.op = "finish_decompress"
    /\ result.ret = "true"
    /\ dec.cinfo.raw_data_out # 0
    /\ dec.cinfo.output_scanline > dec.cinfo.output_height

\* -------------------------------------------------------------------- C10
PreconditionViolated ==
    \/ dec.cinfo.max_v_samp_factor * DCTSIZE > MAX_MCU_HEIGHT
    \/ dec.cinfo.num_components > MAX_COMPONENTS
    \/ dec.cinfo.num_components > result.ndest

\* C10: a raw read that has a chunk to read and whose preconditions are
\* violated (MCU height above 16, more than 4 components, or more components
\* than destination buffers) panics with every destination buffer as it was
\* and without a call of the engine's raw-read routine.
C10_RawPreconditionsFailFast ==
    (result.op = "read_raw_data" /\ result.pending /\ PreconditionViolated) =>
        /\ result.ret = "panic"
        /\ result.after = result.before
        /\ dec.reads = 0

\* a raw read of a five-component image into five non-empty buffers
C10_Witness ==
    /\ result.op = "read_raw_data"
    /\ result.ret = "panic"
    /\ dec.cinfo.raw_data_out # 0
    /\ dec.cinfo.num_components > MAX_COMPONENTS
    /\ result.ndest >= dec.cinfo.num_components
    /\ result.before[1] > 0
    /\ result.after = result.before

\* -------------------------------------------------------------------- C11
RawReadReturned == result.op = "read_raw_data" /\ result.ret = "Ok"

\* bytes one chunk read appends to the buffer of component ci (from 1)
ChunkBytes(ci) ==
    components(dec)[ci].v_samp_factor * DCTSIZE * row_stride(components(dec)[ci])

\* C11: when read_raw_data has returned after k chunk reads, the buffer of
\* every component c is k * v_samp_factor(c) * 8 * row_stride(c) bytes longer
\* than before, every byte the engine wrote lies in the appended part (the
\* bytes that were in the buffer are as they were), and the buffers past the
\* component count have not changed.
C11_ChunkGrowsBuffers ==
    RawReadReturned =>
        /\ Len(result.after) = Len(result.before)
        /\ \A ci \in 1..Len(result.before) :
              IF ci <= Len(components(dec))
              THEN result.after[ci] = result.before[ci] + dec.reads * ChunkBytes(ci)
              ELSE result.after[ci] = result.before[ci]
        /\ \A w \in result.io.wrote :
              /\ w.ci + 1 <= Len(components(dec))
              /\ result.before[w.ci + 1] <= w.from
              /\ w.from < w.to
              /\ w.to <= result.after[w.ci + 1]

\* two chunk reads into non-empty buffers, one buffer more than components
C11_Witness ==
    /\ RawReadReturned
    /\ dec.reads = 2
    /\ Len(result.before) > Len(components(dec))
    /\ result.before[1] > 0
    /\ result.io.wrote # {}

\* -------------------------------------------------------------------- C12
\* a read_raw_data call that decoded the whole image
FullRawDecode ==
    /\ RawReadReturned
    /\ result.from_line = 0
    /\ result.pending
    /\ ~read_more_chunks(dec)

\* C12 as stated: after a full raw decode the number of bytes added to the
\* buffer of every component is row_stride * col_stride of that component.
C12_TotalIsStrideProduct ==
    FullRawDecode =>
        \A ci \in 1..Len(components(dec)) :
            result.after[ci] - result.before[ci]
                = row_stride(components(dec)[ci]) * col_stride(components(dec)[ci])

\* -------------------------------------------------------------------- C13
\* component 0 sampled (2,2), components 1 and 2 sampled (1,1)
Is420 ==
    /\ Len(components(dec)) = 3
    /\ components(dec)[1].h_samp_factor = 2 /\ components(dec)[1].v_samp_factor = 2
    /\ \A ci \in 2..3 :
          components(dec)[ci].h_samp_factor = 1 /\ components(dec)[ci].v_samp_factor = 1

\* a read_raw_data call that returned after at least one chunk read into
\* buffers that were empty
ReadIntoEmpty ==
    /\ RawReadReturned
    /\ dec.reads >= 1
    /\ \A ci \in 1..Len(result.before) : result.before[ci] = 0

\* C13 as stated: on a 4:2:0 image, starting from empty buffers, plane 0 is
\* 4 times as long as plane 1 after the chunk reads made so far.
C13_PlaneRatio ==
    (ReadIntoEmpty /\ Is420) => result.after[1] = 4 * result.after[2]

\* C13 amended: on a 4:2:0 image, starting from empty buffers, plane 0 holds
\* twice as many rows as plane 1 after the chunk reads made so far
\* (len0 * row_stride1 = 2 * len1 * row_stride0), and is 4 times as long
\* exactly when its row stride is twice that of plane 1.
C13_PlaneRows ==
    (ReadIntoEmpty /\ Is420) =>
        LET rs0 == row_stride(components(dec)[1])
            rs1 == row_stride(components(dec)[2])
        IN  /\ result.after[1] * rs1 = 2 * result.after[2] * rs0
            /\ (result.after[1] = 4 * result.after[2]) <=> (rs0 = 2 * rs1)

\* two chunk reads of an image one block wide: both planes have a row
\* stride of one block
C13_Witness ==
    /\ ReadIntoEmpty
    /\ Is420
    /\ dec.reads = 2
    /\ row_stride(components(dec)[1]) = row_stride(components(dec)[2])
    /\ result.after[1] = 2 * result.after[2]

\* -------------------------------------------------------------------- C14
\* the engine read call a read operation made last
LastRead == dec.calls[Len(dec.calls)]

McuHeight == dec.cinfo.max_v_samp_factor * DCTSIZE

\* C14: when the engine's raw-read routine has returned a number of rows
\* other than the MCU height, read_raw_data has panicked and that engine
\* read was its last one; when read_raw_data has returned after reading, the
\* engine produced exactly MCU-height rows at every chunk read.
C14_PartialRawReadAborts ==
    (result.op = "read_raw_data" /\ dec.reads >= 1) =>
        /\ LastRead.fn = "jpeg_read_raw_data"
        /\ (~LastRead.exit /\ LastRead.ret # McuHeight) =>
              /\ result.ret = "panic"
              /\ dec.reads = result.fail_at
        /\ result.ret = "Ok" =>
              /\ LastRead.ret = McuHeight
              /\ result.fail_at = 0

\* the engine had no rows at hand at the second chunk read
C14_Witness ==
    /\ result.op = "read_raw_data"
    /\ result.ret = "panic"
    /\ dec.reads = 2
    /\ result.fail_at = 2
    /\ LastRead.ret = 0
    /\ ~LastRead.exit

\* -------------------------------------------------------------------- C15
WidthMismatch == result.size_of_T # num_components(out_color_space(dec))

\* C15: a read_scanlines::<T> call with size_of::<T>() different from the
\* component count of the output colorspace has panicked with no output
\* buffer allocated and no engine read call made; with the two equal the
\* buffer of output_height * output_width elements was allocated.
C15_PixelWidthChecked ==
    result.op = "read_scanlines" =>
        IF WidthMismatch
        THEN /\ result.ret = "panic"
             /\ result.io.alloc = 0
             /\ result.io.wrote = {}
             /\ dec.reads = 0
        ELSE result.io.alloc = output_height(dec) * output_width(dec)

\* a four-byte pixel type on an RGB session with rows pending
C15_Witness ==
    /\ result.op = "read_scanlines"
    /\ result.size_of_T = 4
    /\ out_color_space(dec) = "JCS_RGB"
    /\ dec.cinfo.raw_data_out = 0
    /\ result.pending
    /\ result.ret = "panic"

\* -------------------------------------------------------------------- C16
\* the last engine read of the read_scanlines call reported zero scanlines
ZeroRows ==
    /\ dec.reads >= 1
    /\ LastRead.fn = "jpeg_read_scanlines"
    /\ ~LastRead.exit
    /\ LastRead.ret = 0

\* C16: read_scanlines has returned None exactly when an engine read of it
\* reported zero scanlines, which happens only with scanlines pending; when
\* it has returned otherwise it has returned a buffer of output_width *
\* output_height elements.
C16_NoneIffZeroRows ==
    result.op = "read_scanlines" =>
        /\ (result.ret = "None") <=> ZeroRows
        /\ ZeroRows => (read_more_chunks(dec) /\ dec.reads = result.fail_at)
        /\ result.ret \notin {"None", "panic"} =>
              /\ result.ret = "Some"
              /\ result.val = output_width(dec) * output_height(dec)
              /\ ~read_more_chunks(dec)

\* None at the second scanline of an image
C16_Witness ==
    /\ result.op = "read_scanlines"
    /\ result.ret = "None"
    /\ dec.reads = 2
    /\ dec.cinfo.output_scanline = 1
    /\ output_height(dec) > 2

\* -------------------------------------------------------------------- C17
\* scanlines a read operation found pending when it was called
PendingAtCall ==
    IF result.pending THEN output_height(dec) - result.from_line ELSE 0

\* C17: a read operation makes no more engine read calls than scanlines
\* were pending when it was called, every engine read but a last one that
\* ended the operation (None, panic) advanced output_scanline, by one
\* scanline or one MCU row, and a read operation that has returned normally
\* has left no scanline pending.
C17_ReadLoopsTerminate ==
    /\ result.op \in {"read_raw_data", "read_scanlines"} =>
          /\ dec.reads <= PendingAtCall
          /\ dec.reads <= output_height(dec)
    /\ (result.op = "read_scanlines" /\ result.ret = "Some") =>
          /\ ~read_more_chunks(dec)
          /\ dec.cinfo.output_scanline = result.from_line + dec.reads
    /\ (result.op = "read_scanlines" /\ result.ret = "None") =>
          dec.cinfo.output_scanline = result.from_line + dec.reads - 1
    /\ (result.op = "read_raw_data" /\ result.ret = "Ok") =>
          /\ ~read_more_chunks(dec)
          /\ dec.cinfo.output_scanline = result.from_line + dec.reads * McuHeight

\* a scanline read that made as many engine reads as the image has rows
C17_Witness ==
    /\ result.op = "read_scanlines"
    /\ result.ret = "Some"
    /\ result.from_line = 0
    /\ dec.reads = output_height(dec)
    /\ output_height(dec) > DCTSIZE

\* -------------------------------------------------------------------- C18
\* a read_raw_data call that built a row-pointer table
TableBuilt == result.op = "read_raw_data" /\ dec.reads >= 1

\* rows of component ci (from 0) in one MCU row
CompHeight(ci) == components(dec)[ci + 1].v_samp_factor * DCTSIZE

\* C18: in the row-pointer table of the last chunk read, the entry of row
\* r < v_samp_factor(c) * 8 of component c is old_len + r * row_stride, its
\* row_stride bytes lie inside the part of the buffer that chunk read
\* appended and overlap no other row's bytes; the entries of the rows from
\* v_samp_factor(c) * 8 up to the MCU height are null; and the table has no
\* entry outside MAX_COMPONENTS x MAX_MCU_HEIGHT.
C18_RowPointerTable ==
    TableBuilt =>
        LET T == result.io.row_ptrs
            old_len == result.io.original_len
            rs(ci) == row_stride(components(dec)[ci + 1])
        IN  /\ DOMAIN T = (0..(MAX_COMPONENTS - 1)) \X (0..(MAX_MCU_HEIGHT - 1))
            /\ \A ci \in 0..(Len(components(dec)) - 1) :
                  /\ result.after[ci + 1] = old_len[ci + 1] + CompHeight(ci) * rs(ci)
                  /\ \A r \in 0..(CompHeight(ci) - 1) :
                        /\ T[<<ci, r>>] = old_len[ci + 1] + r * rs(ci)
                        /\ old_len[ci + 1] <= T[<<ci, r>>]
                        /\ T[<<ci, r>>] + rs(ci) <= result.after[ci + 1]
                        /\ \A q \in 0..(CompHeight(ci) - 1) :
                              q # r => \/ T[<<ci, r>>] + rs(ci) <= T[<<ci, q>>]
                                       \/ T[<<ci, q>>] + rs(ci) <= T[<<ci, r>>]
                  /\ \A r \in CompHeight(ci)..(McuHeight - 1) : T[<<ci, r>>] = NULL

\* the table of a second chunk read of a 4:2:0 image: sixteen rows for
\* component 0, eight rows and eight null entries for component 1
C18_Witness ==
    /\ TableBuilt
    /\ Is420
    /\ dec.reads = 2
    /\ result.io.original_len[1] > 0
    /\ result.io.row_ptrs[<<0, 15>>] # NULL
    /\ result.io.row_ptrs[<<1, 7>>] # NULL
    /\ result.io.row_ptrs[<<1, 8>>] = NULL

\* -------------------------------------------------------------------- C19
\* bytes of one row of the buffer read_scanlines returns
RowBytes == output_width(dec) * result.size_of_T

\* C19 as stated: when read_scanlines has returned a buffer, every row of
\* the buffer was written by an engine read made during that call.
C19_EveryRowWritten ==
    (result.op = "read_scanlines" /\ result.ret = "Some") =>
        \A row \in 0..(output_height(dec) - 1) :
            \E w \in result.io.wrote :
                /\ w.from = row * RowBytes
                /\ w.to = (row + 1) * RowBytes

\* -------------------------------------------------------------------- C20
\* a read operation other than the one of the representation the session
\* was started with
Mismatched ==
    \/ result.op = "read_raw_data" /\ dec.cinfo.raw_data_out = 0
    \/ result.op = "read_scanlines" /\ dec.cinfo.raw_data_out # 0

\* C20 as stated: a read operation that does not match the representation
\* of the session has made no engine read call and changed no destination
\* buffer, and has panicked if there was anything to read.
C20_MismatchedReadFailsFast ==
    Mismatched =>
        /\ dec.reads = 0
        /\ result.op = "read_raw_data" => result.after = result.before
        /\ result.pending => result.ret = "panic"

====
